---------------------------- MODULE Spec2Model ----------------------------
(***************************************************************************)
(* A model of diskspace.py: main, show_space_list (tree building, sorting, *)
(* header), print_tree (recursive rendering) and bytes_to_readable.        *)
(*                                                                         *)
(* Paths are sequences of one-character strings, so that os.path.dirname   *)
(* and os.path.basename are computed, not assumed.  Python 2 numbers keep  *)
(* their semantics: ints are unbounded (base-1024 limb sequences where the *)
(* magnitude matters) and the percentage goes through IEEE-754 doubles.    *)
(***************************************************************************)
EXTENDS Integers, Sequences, FiniteSets, TLC

(***************************************************************************)
(* Bounds of the model.                                                    *)
(***************************************************************************)
\* number of `du` output lines in one run
MaxLines == 3
\* number of base-1024 limbs of a block count given to bytes_to_readable
MaxLimbs == 5

(***************************************************************************)
(* Generic helpers.                                                        *)
(***************************************************************************)
Max(a, b) == IF a >= b THEN a ELSE b

Range(s) == {s[i] : i \in 1..Len(s)}

Reverse(s) == [i \in 1..Len(s) |-> s[Len(s) + 1 - i]]

RECURSIVE Pow(_, _)
Pow(b, n) == IF n = 0 THEN 1 ELSE b * Pow(b, n - 1)

(***************************************************************************)
(* Paths: os.path.dirname / os.path.basename (posixpath).                  *)
(***************************************************************************)
\* str.rfind('/') + 1, as a 1-based count of characters up to the last '/'
RECURSIVE LastSlash(_, _)
LastSlash(p, i) ==
    IF i = 0 THEN 0
    ELSE IF p[i] = "/" THEN i
    ELSE LastSlash(p, i - 1)

\* str.rstrip('/')
RECURSIVE RStripSlash(_)
RStripSlash(h) ==
    IF h = <<>> THEN h
    ELSE IF h[Len(h)] = "/" THEN RStripSlash(SubSeq(h, 1, Len(h) - 1))
    ELSE h

\* os.path.dirname(file_path)
dirname(p) ==
    LET head == SubSeq(p, 1, LastSlash(p, Len(p)))
    IN  IF head # <<>> /\ Range(head) # {"/"} THEN RStripSlash(head) ELSE head

\* os.path.basename(path)
basename(p) == SubSeq(p, LastSlash(p, Len(p)) + 1, Len(p))


(***************************************************************************)
(* Python integers are unbounded.  Where the magnitude matters they are    *)
(* little-endian sequences of base-1024 limbs with no high zero limb       *)
(* (<<>> is 0).                                                            *)
(***************************************************************************)
Base == 1024

RECURSIVE Limbs(_)
Limbs(n) == IF n = 0 THEN <<>> ELSE <<n % Base>> \o Limbs(n \div Base)

RECURSIVE LimbsToInt(_)
LimbsToInt(l) == IF l = <<>> THEN 0 ELSE Head(l) + Base * LimbsToInt(Tail(l))

\* l * k + carry, for a small k
RECURSIVE MulLimbs(_, _, _)
MulLimbs(l, k, carry) ==
    IF l = <<>> THEN Limbs(carry)
    ELSE LET v == Head(l) * k + carry
         IN  <<v % Base>> \o MulLimbs(Tail(l), k, v \div Base)

\* l with its high zero limbs removed
RECURSIVE Normalize(_)
Normalize(l) ==
    IF l = <<>> THEN l
    ELSE IF l[Len(l)] = 0 THEN Normalize(SubSeq(l, 1, Len(l) - 1))
    ELSE l

\* l // 1024^n
DropLimbs(l, n) == IF n >= Len(l) THEN <<>> ELSE SubSeq(l, n + 1, Len(l))

(***************************************************************************)
(* bytes_to_readable                                                       *)
(***************************************************************************)
BlockSize == 512

labels == <<"B", "Kb", "Mb", "Gb", "Tb">>

\* while readable_bytes / 1024: readable_bytes /= 1024; count += 1
RECURSIVE DivisionLoop(_, _)
DivisionLoop(readable_bytes, count) ==
    IF DropLimbs(readable_bytes, 1) # <<>>
    THEN DivisionLoop(DropLimbs(readable_bytes, 1), count + 1)
    ELSE count

\* round(byts / 1024.0**count, 2), in hundredths.  The quotient is exact in a
\* double whenever count <= 4 (byts < 2^50), and Python 2 rounds an exact
\* half away from zero: floor((100 * byts + 1024^count / 2) / 1024^count).
RoundedValue(byts, count) ==
    LET scaled == MulLimbs(byts, 100, 0)
        low    == SubSeq(scaled, 1, IF count <= Len(scaled) THEN count ELSE Len(scaled))
        up     == count > 0 /\ Len(low) = count /\ low[count] >= Base \div 2
    IN  LimbsToInt(DropLimbs(scaled, count)) + (IF up THEN 1 ELSE 0)

\* bytes_to_readable(blocks): the formatted value (in hundredths) and its
\* label, or IndexError when labels[count] is out of range
bytes_to_readable(blocks) ==
    LET byts  == Normalize(MulLimbs(blocks, BlockSize, 0))
        count == DivisionLoop(byts, 0)
    IN  IF count + 1 > Len(labels)
        THEN [error |-> "IndexError", count |-> count]
        ELSE [hundredths |-> RoundedValue(byts, count), label |-> labels[count + 1]]

\* number of decimal digits of n
RECURSIVE Digits(_)
Digits(n) == IF n < 10 THEN 1 ELSE 1 + Digits(n \div 10)

\* len() of a label
LabelLen(l) == IF l = "B" THEN 1 ELSE 2

\* len(print_size): '{:.2f}{}' is the integer part, '.', two decimals, label
PrintSizeLen(ps) == Digits(ps.hundredths \div 100) + 3 + LabelLen(ps.label)


(***************************************************************************)
(* IEEE-754 binary64 arithmetic on positive values, as far as              *)
(* int(size / float(total_size) * 100) needs it.  A double is a record     *)
(* [e, m]: its value is (1 + m / 2^52) * 2^e, the 52 fraction bits m kept  *)
(* as four 13-bit limbs, most significant first.  Results are rounded to   *)
(* nearest, ties to even.  Operands stay below 2^17.                       *)
(***************************************************************************)
LimbBase == 8192

\* the first n base-8192 digits of r / den after the point (r < den), and the
\* remainder left after them
RECURSIVE FracLimbs(_, _, _)
FracLimbs(r, den, n) ==
    IF n = 0 THEN [limbs |-> <<>>, rem |-> r]
    ELSE LET rest == FracLimbs((r * LimbBase) % den, den, n - 1)
         IN  [limbs |-> <<(r * LimbBase) \div den>> \o rest.limbs, rem |-> rest.rem]

\* m + 1; the carry out of the top limb is reported
RECURSIVE IncLimbs(_)
IncLimbs(m) ==
    IF m = <<>> THEN [limbs |-> <<>>, carry |-> TRUE]
    ELSE LET low == IncLimbs(Tail(m))
         IN  IF ~low.carry THEN [limbs |-> <<Head(m)>> \o low.limbs, carry |-> FALSE]
             ELSE IF Head(m) + 1 = LimbBase
             THEN [limbs |-> <<0>> \o low.limbs, carry |-> TRUE]
             ELSE [limbs |-> <<Head(m) + 1>> \o low.limbs, carry |-> FALSE]

\* the double nearest to (1 + m / 2^52 + a bit more) * 2^e: half says the
\* first dropped bit is 1, more that a later dropped bit is
RoundToDouble(e, m, half, more) ==
    LET up  == half /\ (more \/ m[Len(m)] % 2 = 1)
        inc == IncLimbs(m)
    IN  IF ~up THEN [e |-> e, m |-> m]
        ELSE IF inc.carry THEN [e |-> e + 1, m |-> inc.limbs]
        ELSE [e |-> e, m |-> inc.limbs]

\* the largest j with t * 2^j <= s (s >= t)
RECURSIVE Log2Quotient(_, _)
Log2Quotient(s, t) == IF s < 2 * t THEN 0 ELSE 1 + Log2Quotient(s, 2 * t)

\* the smallest k with s * 2^k >= t
RECURSIVE LeadingZeros(_, _)
LeadingZeros(s, t) == IF s >= t THEN 0 ELSE 1 + LeadingZeros(2 * s, t)

\* size / float(total_size) for size > 0, total_size > 0
FloatDiv(s, t) ==
    LET e    == IF s >= t THEN Log2Quotient(s, t) ELSE 0 - LeadingZeros(s, t)
        num  == IF e < 0 THEN s * Pow(2, 0 - e) ELSE s
        den  == IF e > 0 THEN t * Pow(2, e) ELSE t
        frac == FracLimbs(num - den, den, 4)
    IN  RoundToDouble(e, frac.limbs, 2 * frac.rem >= den,
                      2 * frac.rem # den /\ frac.rem # 0)

\* x * 100
FloatMul100(x) ==
    LET p4   == x.m[4] * 100
        p3   == x.m[3] * 100 + p4 \div LimbBase
        p2   == x.m[2] * 100 + p3 \div LimbBase
        p1   == x.m[1] * 100 + p2 \div LimbBase
        top  == 100 + p1 \div LimbBase
        prod == <<top, p1 % LimbBase, p2 % LimbBase, p3 % LimbBase, p4 % LimbBase>>
        \* the product has 53 + sh significant bits
        sh   == IF top >= 128 THEN 7 ELSE 6
        cut  == Pow(2, sh)
        kept == [i \in 1..4 |->
                   prod[i + 1] \div cut + (prod[i] % cut) * (LimbBase \div cut)]
        rem  == prod[5] % cut
    IN  RoundToDouble(x.e + sh, kept, rem >= cut \div 2, rem % (cut \div 2) # 0)

\* int(x): truncation (x < 2^27)
FloatToInt(x) ==
    IF x.e < 0 THEN 0
    ELSE (LimbBase * LimbBase + x.m[1] * LimbBase + x.m[2]) \div Pow(2, 26 - x.e)

\* int(file_tree_node['size'] / float(total_size) * 100), total_size > 0
percentage(size, total_size) ==
    IF size = 0 THEN 0
    ELSE FloatToInt(FloatMul100(FloatDiv(size, total_size)))

(***************************************************************************)
(* Inputs of a run.                                                        *)
(***************************************************************************)
P_slash == <<"/">>
P_r     == <<"/", "r">>
P_ra    == <<"/", "r", "/", "a">>
P_rb    == <<"/", "r", "/", "b">>
P_rac   == <<"/", "r", "/", "a", "/", "c">>

\* the paths `du` may report
Paths == {P_slash, P_r, P_ra, P_rb, P_rac}

\* the sizes (in blocks) `du` may report
Sizes == {0, 29, 50, 100}

\* os.path.abspath(directory)
Directories == {P_r, P_slash}

\* values of -s/--hide
Hides == {0, 29}

\* values of -d/--depth
Depths == {1}

\* the parsed command line: -a and -d are mutually exclusive, -d defaults to 1
Args ==
    { a \in [all : BOOLEAN, depth : Depths, order : {"desc", "asc"},
             hide : Hides, tree_view : BOOLEAN] : a.all => a.depth = 1 }


(***************************************************************************)
(* State.                                                                  *)
(***************************************************************************)
VARIABLES
    args,           \* the parsed command line (module-level `args`)
    abs_directory,  \* os.path.abspath(directory)
    pc,             \* where the program is
    outcome,        \* "running", "ok", or the exception that ended the run
    cmd,            \* the `du` command: [depth |-> N] or [depth |-> "none"]
    file_tree,      \* path -> [children, size] (and print_size once sorted)
    total_size,     \* size of the root measurement, -1 until seen
    nlines,         \* number of `du` lines consumed
    measured,       \* path -> size of its last measurement, -1 if none (history)
    placeholders,   \* paths whose node was created for a directory name (history)
    largest_size,   \* widest print_size
    output,         \* the lines printed so far
    stack,          \* print_tree's call stack: frames [path, depth, i]
    blocks,         \* bytes_to_readable's argument (limbs), when run alone
    readable        \* bytes_to_readable's result, when run alone

vars == <<args, abs_directory, pc, outcome, cmd, file_tree, total_size, nlines,
          measured, placeholders, largest_size, output, stack, blocks, readable>>

fmtvars == <<blocks, readable>>

treevars == <<file_tree, total_size, nlines, measured, placeholders>>

Keys == DOMAIN file_tree

\* the declared parameter contract `int, >=0` of the @contract decorator
NonNegative(v) == v >= 0

(***************************************************************************)
(* main and the start of show_space_list (lines 129-141).                  *)
(***************************************************************************)
\* the depth main passes: args.depth, or the default -1 under --all
DepthPassed(a) == IF ~a.all THEN a.depth ELSE -1

Init ==
    /\ args \in Args
    /\ abs_directory \in Directories
    /\ pc = "main"
    /\ outcome = "running"
    /\ cmd = [depth |-> "none"]
    /\ file_tree = <<>>
    /\ total_size = -1
    /\ nlines = 0
    /\ measured = [p \in Paths |-> -1]
    /\ placeholders = {}
    /\ largest_size = 0
    /\ output = <<>>
    /\ stack = <<>>
    /\ blocks = <<>>
    /\ readable = <<>>

\* main calls show_space_list; @contract checks depth; the command is built
Main ==
    /\ pc = "main"
    /\ LET depth == DepthPassed(args)
       IN  IF ~NonNegative(depth)
           THEN /\ outcome' = "ContractNotRespected"
                /\ pc' = "done"
                /\ cmd' = cmd
           ELSE /\ cmd' = [depth |-> IF depth # -1 THEN depth ELSE "none"]
                /\ pc' = "build"
                /\ outcome' = outcome
    /\ UNCHANGED <<args, abs_directory, treevars, largest_size, output, stack, fmtvars>>

(***************************************************************************)
(* The tree-building loop (lines 142-174), one `du` line per step.         *)
(***************************************************************************)
NewNode(size) == [children |-> <<>>, size |-> size]

\* the root line with the `continue` of line 159 left out: the root falls
\* through to the code for any other line
IngestRootFallsThrough(tree, file_size, file_path) ==
    LET dir_path == dirname(file_path)
        t1 == IF file_path \in DOMAIN tree
              THEN [tree EXCEPT ![file_path].size = file_size]
              ELSE (file_path :> [children |-> <<>>, size |-> file_size]) @@ tree
        t2 == IF dir_path \notin DOMAIN t1
              THEN (dir_path :> [children |-> <<>>, size |-> 0]) @@ t1 ELSE t1
    IN  [t2 EXCEPT ![dir_path].children = Append(@, file_path)]

\* the root line: lines 148-159
IngestRoot(tree, file_size, file_path) ==
    IF file_path \in DOMAIN tree
    THEN [tree EXCEPT ![file_path].size = file_size]
    ELSE (file_path :> NewNode(file_size)) @@ tree

\* any other line with line 174 left out: a node keeps the size it was
\* created with
IngestEntryKeepsFirstSize(tree, file_size, file_path) ==
    LET dir_path == dirname(file_path)
        t1 == IF file_path \notin DOMAIN tree
              THEN (file_path :> [children |-> <<>>, size |-> file_size]) @@ tree
              ELSE tree
        t2 == IF dir_path \notin DOMAIN t1
              THEN (dir_path :> [children |-> <<>>, size |-> 0]) @@ t1 ELSE t1
    IN  [t2 EXCEPT ![dir_path].children = Append(@, file_path)]

\* any other line: lines 161-174
IngestEntry(tree, file_size, file_path) ==
    LET dir_path == dirname(file_path)
        t1 == IF file_path \notin DOMAIN tree
              THEN (file_path :> NewNode(file_size)) @@ tree ELSE tree
        t2 == IF dir_path \notin DOMAIN t1
              THEN (dir_path :> NewNode(0)) @@ t1 ELSE t1
        t3 == [t2 EXCEPT ![dir_path].children = Append(@, file_path)]
    IN  [t3 EXCEPT ![file_path].size = file_size]

Ingest(file_size, file_path) ==
    /\ pc = "build"
    /\ nlines < MaxLines
    /\ nlines' = nlines + 1
    /\ measured' = [measured EXCEPT ![file_path] = file_size]
    /\ IF file_path = abs_directory
       THEN /\ total_size' = file_size
            /\ file_tree' = IngestRoot(file_tree, file_size, file_path)
       ELSE /\ total_size' = total_size
            /\ file_tree' = IngestEntry(file_tree, file_size, file_path)
    /\ placeholders' = placeholders \cup (DOMAIN file_tree' \ (DOMAIN file_tree \cup {file_path}))
    /\ UNCHANGED <<args, abs_directory, pc, outcome, cmd, largest_size, output,
                   stack, fmtvars>>

(***************************************************************************)
(* The sorting loop (lines 176-188).                                       *)
(***************************************************************************)
\* x goes before y in sorted(key=size, reverse=order)
Before(tree, x, y, reverse) ==
    IF reverse THEN tree[x].size > tree[y].size ELSE tree[x].size < tree[y].size

\* x inserted behind every element it does not go before (stable)
RECURSIVE InsertSorted(_, _, _, _)
InsertSorted(acc, x, tree, reverse) ==
    IF acc = <<>> THEN <<x>>
    ELSE IF Before(tree, x, Head(acc), reverse) THEN <<x>> \o acc
    ELSE <<Head(acc)>> \o InsertSorted(Tail(acc), x, tree, reverse)

RECURSIVE SortFrom(_, _, _, _)
SortFrom(acc, rest, tree, reverse) ==
    IF rest = <<>> THEN acc
    ELSE SortFrom(InsertSorted(acc, Head(rest), tree, reverse), Tail(rest), tree, reverse)

\* reverse=True done as an ascending sort read backwards: ties come out in
\* reverse arrival order
sortedThenReversed(children, tree, reverse) ==
    IF reverse THEN Reverse(SortFrom(<<>>, children, tree, FALSE))
    ELSE SortFrom(<<>>, children, tree, FALSE)

\* sorted(children, key=lambda v: file_tree[v]['size'], reverse=order)
sorted(children, tree, reverse) == SortFrom(<<>>, children, tree, reverse)

RECURSIVE MaxOver(_, _)
MaxOver(S, f) ==
    IF S = {} THEN 0
    ELSE LET x == CHOOSE y \in S : TRUE
         IN  Max(f[x], MaxOver(S \ {x}, f))

\* every size of Sizes is far below 2^41 blocks, so bytes_to_readable returns
\* a string for every node here
SortPass ==
    /\ pc = "build"
    /\ LET reverse == (args.order = "desc")
           done == [p \in Keys |->
                      [children   |-> sorted(file_tree[p].children, file_tree, reverse),
                       size       |-> file_tree[p].size,
                       print_size |-> bytes_to_readable(Limbs(file_tree[p].size))]]
       IN  /\ file_tree' = done
           /\ largest_size' = MaxOver(Keys, [p \in Keys |-> PrintSizeLen(done[p].print_size)])
    /\ pc' = "header"
    /\ UNCHANGED <<args, abs_directory, outcome, cmd, total_size, nlines, measured,
                   placeholders, output, stack, fmtvars>>

(***************************************************************************)
(* The header and the call of print_tree (lines 190-192).                  *)
(***************************************************************************)
PrintHeader ==
    /\ pc = "header"
    /\ output' = Append(output, [kind |-> "header", pad |-> Max(0, largest_size - 4)])
    /\ pc' = "call"
    /\ UNCHANGED <<args, abs_directory, outcome, cmd, treevars, largest_size, stack,
                   fmtvars>>

\* file_tree[abs_directory] raises KeyError without a root node; @contract
\* checks print_tree's largest_size, total_size and depth
CallPrintTree ==
    /\ pc = "call"
    /\ IF abs_directory \notin Keys
       THEN outcome' = "KeyError" /\ pc' = "done" /\ stack' = stack
       ELSE IF ~(NonNegative(largest_size) /\ NonNegative(total_size))
       THEN outcome' = "ContractNotRespected" /\ pc' = "done" /\ stack' = stack
       ELSE /\ stack' = <<[path |-> abs_directory, depth |-> 0, i |-> 0]>>
            /\ pc' = "print"
            /\ outcome' = outcome
    /\ UNCHANGED <<args, abs_directory, cmd, treevars, largest_size, output, fmtvars>>

(***************************************************************************)
(* print_tree (lines 96-111).  The top frame is the running call: i = 0    *)
(* before its percentage test, i = k >= 1 before the k-th child.           *)
(***************************************************************************)
Top == stack[Len(stack)]

Pop == SubSeq(stack, 1, Len(stack) - 1)

\* percentage < args.hide
Hidden(pct, hide) == pct < hide

\* the line printed for a node (lines 101-106); `node` records whose line it is
Line(path, depth, pct) ==
    [kind  |-> "line",
     node  |-> path,
     size  |-> file_tree[path].print_size,
     width |-> largest_size,
     pct   |-> pct,
     text  |-> IF args.tree_view
               THEN [indent |-> depth, name |-> basename(path)]
               ELSE [indent |-> 0, name |-> path]]

\* the children visited last to first
ChildAtBackwards(children, k) == children[Len(children) + 1 - k]

\* the k-th child visited by `for child in file_tree_node['children']`
ChildAt(children, k) == children[k]

\* a call returns; the run ends with the outermost one
Return ==
    /\ stack' = Pop
    /\ IF Len(stack) = 1
       THEN pc' = "done" /\ outcome' = "ok"
       ELSE pc' = pc /\ outcome' = outcome

\* lines 96-106: the percentage, the hide test, the line
PrintTreeEnter ==
    /\ pc = "print"
    /\ Top.i = 0
    /\ IF total_size = 0
       THEN /\ outcome' = "ZeroDivisionError"
            /\ pc' = "done"
            /\ UNCHANGED <<stack, output>>
       ELSE LET pct == percentage(file_tree[Top.path].size, total_size)
            IN  IF Hidden(pct, args.hide)
                THEN Return /\ output' = output
                ELSE /\ output' = Append(output, Line(Top.path, Top.depth, pct))
                     /\ stack' = [stack EXCEPT ![Len(stack)].i = 1]
                     /\ UNCHANGED <<pc, outcome>>
    /\ UNCHANGED <<args, abs_directory, cmd, treevars, largest_size, fmtvars>>

\* lines 108-111: the recursive call for the next child
PrintTreeChild ==
    /\ pc = "print"
    /\ Top.i >= 1
    /\ Top.i <= Len(file_tree[Top.path].children)
    /\ stack' = Append([stack EXCEPT ![Len(stack)].i = @ + 1],
                       [path  |-> ChildAt(file_tree[Top.path].children, Top.i),
                        depth |-> Top.depth + 1,
                        i     |-> 0])
    /\ UNCHANGED <<args, abs_directory, pc, outcome, cmd, treevars, largest_size,
                   output, fmtvars>>

\* the loop over the children is over: the call returns
PrintTreeReturn ==
    /\ pc = "print"
    /\ Top.i >= 1
    /\ Top.i > Len(file_tree[Top.path].children)
    /\ Return
    /\ UNCHANGED <<args, abs_directory, cmd, treevars, largest_size, output, fmtvars>>

Next ==
    \/ Main
    \/ \E file_size \in Sizes, file_path \in Paths : Ingest(file_size, file_path)
    \/ SortPass
    \/ PrintHeader
    \/ CallPrintTree
    \/ PrintTreeEnter
    \/ PrintTreeChild
    \/ PrintTreeReturn

Spec == Init /\ [][Next]_vars

(***************************************************************************)
(* bytes_to_readable run on its own, over block counts up to 1024^MaxLimbs.*)
(***************************************************************************)
\* the limbs block counts are made of
LimbSamples == {0, 1, 2, 1023}

BlockInputs ==
    {l \in UNION {[1..n -> LimbSamples] : n \in 0..MaxLimbs} : l = <<>> \/ l[Len(l)] # 0}

InitFmt ==
    /\ args = [all |-> FALSE, depth |-> 1, order |-> "desc", hide |-> 0,
               tree_view |-> FALSE]
    /\ abs_directory = P_r
    /\ pc = "format"
    /\ outcome = "running"
    /\ cmd = [depth |-> "none"]
    /\ file_tree = <<>>
    /\ total_size = -1
    /\ nlines = 0
    /\ measured = [p \in Paths |-> -1]
    /\ placeholders = {}
    /\ largest_size = 0
    /\ output = <<>>
    /\ stack = <<>>
    /\ blocks \in BlockInputs
    /\ readable = <<>>

Format ==
    /\ pc = "format"
    /\ readable' = bytes_to_readable(blocks)
    /\ pc' = "formatted"
    /\ UNCHANGED <<args, abs_directory, outcome, cmd, treevars, largest_size, output,
                   stack, blocks>>

NextFmt == Format

SpecFmt == InitFmt /\ [][NextFmt]_vars


(***************************************************************************)
(* Vocabulary of the properties.                                           *)
(***************************************************************************)
Children(n) == Range(file_tree[n].children)

\* the tree lines printed so far, without the header
TreeLines == SelectSeq(output, LAMBDA l : l.kind = "line")

\* the nodes that have a line
Emitted == {TreeLines[k].node : k \in 1..Len(TreeLines)}

\* floor(100 * size / total_size), in exact arithmetic
ExactPercentage(n) == (100 * file_tree[n].size) \div total_size

\* the directory names above n, up to the root
RECURSIVE AncestorsOf(_)
AncestorsOf(n) ==
    IF n = abs_directory \/ dirname(n) = n THEN {}
    ELSE {dirname(n)} \cup AncestorsOf(dirname(n))

IsPrefix(a, b) == Len(a) <= Len(b) /\ SubSeq(b, 1, Len(a)) = a

Finished == pc = "done" /\ outcome = "ok"

\* the nodes reached from the set S through children lists, in at most fuel steps
RECURSIVE ReachableFrom(_, _)
ReachableFrom(S, fuel) ==
    IF fuel = 0 THEN S
    ELSE ReachableFrom(S \cup UNION {Children(n) : n \in S}, fuel - 1)

\* the nodes below n: reached from n in one step or more
Below(n) == ReachableFrom(Children(n), Cardinality(Keys))

(***************************************************************************)
(* C1.  Hiding: every printed line belongs to a node whose percentage      *)
(* floor(100*size/total_size) and whose ancestors' percentages are >= P;   *)
(* a node exactly at P is printed when its parent is; a node below P is    *)
(* not printed and neither is any of its descendants.                      *)
(* Refuted: the percentage is computed in doubles and truncated, so a node *)
(* at exactly 29% of 100 counts as 28% and is hidden by --hide 29.         *)
(***************************************************************************)
EmittedAtOrAboveThreshold ==
    \A n \in Emitted : \A a \in {n} \cup AncestorsOf(n) :
        a \in Keys /\ ExactPercentage(a) >= args.hide

BelowThresholdPruned ==
    \A n \in Keys : ExactPercentage(n) < args.hide =>
        /\ n \notin Emitted
        /\ \A m \in Keys : n \in AncestorsOf(m) => m \notin Emitted

AtThresholdShown ==
    \A n \in Keys :
        (/\ ExactPercentage(n) = args.hide
         /\ \/ n = abs_directory
            \/ /\ dirname(n) # n
               /\ dirname(n) \in Emitted
               /\ n \in Children(dirname(n)))
        => n \in Emitted

\* C1: the three parts of the hiding rule, on every finished rendering
HidingByExactPercentage ==
    Finished => EmittedAtOrAboveThreshold /\ BelowThresholdPruned /\ AtThresholdShown

(***************************************************************************)
(* C2.  Missing root: when the root path never appears among the lines,    *)
(* show_space_list ends with an explicit MissingRootMeasurement error and  *)
(* prints no tree line.                                                    *)
(* Refuted: nothing checks for the root; the run dies of a KeyError or of  *)
(* print_tree's parameter contract after the header has been printed.      *)
(***************************************************************************)
RootNeverMeasured == ~args.all /\ nlines > 0 /\ measured[abs_directory] = -1

\* C2: a run without a root line ends in MissingRootMeasurement, no tree line
MissingRootIsReported ==
    (pc = "done" /\ RootNeverMeasured) =>
        outcome = "MissingRootMeasurement" /\ TreeLines = <<>>

(***************************************************************************)
(* C3.  Sorting: the sort pass leaves every node's children as the stable  *)
(* sort of their arrival order by size: non-increasing for desc,           *)
(* non-decreasing for asc, equal sizes in arrival order, same multiset.    *)
(***************************************************************************)
\* the children of each size, largest size first (or smallest first)
RECURSIVE BySize(_, _, _, _)
BySize(children, tree, sizes, descending) ==
    IF sizes = {} THEN <<>>
    ELSE LET v == CHOOSE x \in sizes :
                    \A y \in sizes : IF descending THEN x >= y ELSE x <= y
         IN  SelectSeq(children, LAMBDA c : tree[c].size = v)
                 \o BySize(children, tree, sizes \ {v}, descending)

StableOrder(children, tree, descending) ==
    BySize(children, tree, {tree[c].size : c \in Range(children)}, descending)

Monotone(children, tree, descending) ==
    \A i, j \in 1..Len(children) : i < j =>
        IF descending THEN tree[children[i]].size >= tree[children[j]].size
        ELSE tree[children[i]].size <= tree[children[j]].size

Occurrences(children, c) == Cardinality({k \in 1..Len(children) : children[k] = c})

\* C3: the sort pass is the stable sort by size, in the requested direction
SortIsStable ==
    [][(pc = "build" /\ pc' = "header") =>
        /\ DOMAIN file_tree' = DOMAIN file_tree
        /\ \A n \in DOMAIN file_tree :
            LET before == file_tree[n].children
                after  == file_tree'[n].children
                desc   == (args.order = "desc")
            IN  /\ file_tree'[n].size = file_tree[n].size
                /\ after = StableOrder(before, file_tree, desc)
                /\ Monotone(after, file_tree, desc)
                /\ \A c \in Range(before) \cup Range(after) :
                       Occurrences(after, c) = Occurrences(before, c)]_vars

\* sorted largest first: /r/b before /r/a, of equal size, and the smaller
\* /r/a/c measured in between
SortedWithTie ==
    /\ pc = "header"
    /\ args.order = "desc"
    /\ {P_r, P_ra, P_rb} \subseteq Keys
    /\ file_tree[P_r].children = <<P_rb, P_ra>>
    /\ file_tree[P_rb].size = file_tree[P_ra].size
    /\ file_tree[P_ra].children = <<P_rac>>

(***************************************************************************)
(* C4.  Building is last-write-wins: every measured path, the root         *)
(* included, has a node whose size is that of its last measurement,        *)
(* whether or not it was first created as a placeholder; the children a    *)
(* node already has are kept by every later line.                          *)
(***************************************************************************)
SizesAreLastMeasured ==
    /\ \A p \in Paths : measured[p] # -1 =>
           p \in Keys /\ file_tree[p].size = measured[p]
    /\ \A p \in Keys : p \in Paths /\ (measured[p] = -1 => file_tree[p].size = 0)
    /\ total_size = measured[abs_directory]

ChildrenAreKept ==
    (pc = "build" /\ pc' = "build") =>
        \A n \in DOMAIN file_tree :
            /\ n \in DOMAIN file_tree'
            /\ IsPrefix(file_tree[n].children, file_tree'[n].children)

\* C4: sizes are those last measured, and children lists only grow
BuildIsLastWriteWins == []SizesAreLastMeasured /\ [][ChildrenAreKept]_vars

\* the root and a directory below it were placeholders, then measured
PlaceholdersCorrected ==
    /\ pc = "build"
    /\ abs_directory = P_r
    /\ {P_r, P_ra} \subseteq placeholders
    /\ measured[P_r] > 0 /\ measured[P_ra] > 0
    /\ file_tree[P_r].children = <<P_ra>>
    /\ file_tree[P_ra].children = <<P_rac>>

(***************************************************************************)
(* C5.  Render order: the lines come in depth-first pre-order from the     *)
(* root: a node before its descendants, a child's whole subtree before the *)
(* next sibling, siblings in the sorted children order.                    *)
(***************************************************************************)
RECURSIVE PreOrder(_, _)
RECURSIVE PreOrderOfChildren(_, _, _)
\* the visible nodes of the subtree of n, by the recursion of print_tree
PreOrder(n, depth) ==
    LET pct == percentage(file_tree[n].size, total_size)
    IN  IF Hidden(pct, args.hide) THEN <<>>
        ELSE <<[node |-> n, depth |-> depth, pct |-> pct]>>
                 \o PreOrderOfChildren(file_tree[n].children, 1, depth + 1)

PreOrderOfChildren(children, k, depth) ==
    IF k > Len(children) THEN <<>>
    ELSE PreOrder(children[k], depth) \o PreOrderOfChildren(children, k + 1, depth)

\* what the lines printed so far say: node and percentage
Printed == [k \in 1..Len(TreeLines) |->
               [node |-> TreeLines[k].node, pct |-> TreeLines[k].pct]]

Expected ==
    LET all == PreOrder(abs_directory, 0)
    IN  [k \in 1..Len(all) |-> [node |-> all[k].node, pct |-> all[k].pct]]

FormatBelow1024 ==
    (pc = "formatted" /\ "hundredths" \in DOMAIN readable) =>
        readable.hundredths < 1024 * 100

(***************************************************************************)
(* C7.  bytes_to_readable never fails: the number of divisions is at most  *)
(* 4 and the unit is one of B, Kb, Mb, Gb, Tb.                             *)
(* Refuted: 2^41 blocks (1 PiB) need a fifth division: IndexError.         *)
(***************************************************************************)
\* C7: the result is a string with one of the five units
FormatNeverFails ==
    pc = "formatted" =>
        /\ "label" \in DOMAIN readable
        /\ readable.label \in Range(labels)

(***************************************************************************)
(* C8.  Every call of show_space_list made by main passes a depth that     *)
(* meets the declared contract depth >= 0, in depth mode and in all mode.  *)
(* Refuted: under --all the default depth=-1 is what the contract sees.    *)
(***************************************************************************)
\* C8: once main has made its call, the depth it passed is >= 0
MainRespectsDepthContract == pc # "main" => NonNegative(DepthPassed(args))

(***************************************************************************)
(* C9.  When the root is measured, print_tree is only run with a           *)
(* total_size that is a valid non-zero divisor, a root of size 0 included. *)
(* Refuted: a root measured at 0 blocks gives total_size = 0.              *)
(***************************************************************************)
\* C9: with a measured root, print_tree never divides by zero
NoDivisionFault ==
    measured[abs_directory] # -1 =>
        /\ pc = "print" => total_size > 0
        /\ outcome # "ZeroDivisionError"

(***************************************************************************)
(* C10.  Rendering terminates: the root is in no children list, every      *)
(* child's directory name is its parent, so no node reached from the root  *)
(* reaches itself; print_tree's stack is a path of distinct nodes from the *)
(* root, and every print step moves it forward in a well-founded order.    *)
(***************************************************************************)
RootNeverAChild == \A n \in Keys : abs_directory \notin Children(n)

ChildrenUnderParent ==
    \A n \in Keys : \A c \in Children(n) : c \in Keys /\ dirname(c) = n

NoCycleFromRoot ==
    abs_directory \in Keys =>
        \A n \in {abs_directory} \cup Below(abs_directory) : n \notin Below(n)

StackIsAPath ==
    pc = "print" =>
        /\ stack # <<>>
        /\ stack[1].path = abs_directory
        /\ \A k \in 1..Len(stack) :
            /\ stack[k].path \in Keys
            /\ stack[k].depth = k - 1
            /\ stack[k].i <= Len(file_tree[stack[k].path].children) + 1
            /\ k > 1 => stack[k].path \in Children(stack[k - 1].path)
            /\ k < Len(stack) => stack[k].i >= 1
            /\ \A j \in 1..(k - 1) : stack[j].path # stack[k].path

\* the positions of the calls on the stack; a call that has returned counts
\* as beyond every position (a children list has at most nlines entries)
Position(st, k) ==
    IF k <= Len(st) THEN st[k].i
    ELSE nlines + 2

\* st2 is later than st1: at the first frame where they differ st2 is ahead
Later(st1, st2) ==
    \E k \in 1..Max(Len(st1), Len(st2)) :
        /\ \A j \in 1..(k - 1) : Position(st1, j) = Position(st2, j)
        /\ Position(st1, k) < Position(st2, k)

PrintAdvances == (pc = "print" /\ stack' # stack) => Later(stack, stack')

\* C10: no cycle below the root, a bounded stack, and progress at every step
RenderingTerminates ==
    /\ [](RootNeverAChild /\ ChildrenUnderParent /\ NoCycleFromRoot /\ StackIsAPath)
    /\ [][PrintAdvances]_vars

\* a finished rendering of a tree that holds a node listed as its own child
RenderedBesideSelfLoop ==
    /\ Finished
    /\ P_slash \in Keys
    /\ P_slash \in Children(P_slash)
    /\ Len(TreeLines) >= 2

=============================================================================
